---------------------------- MODULE Spec2Model ----------------------------
(***************************************************************************)
(* Model of naive_bayes.py: a multinomial Naive Bayes text classifier.     *)
(*                                                                         *)
(* Representation.                                                         *)
(*  - A Python str is a sequence of one-character strings.                 *)
(*  - A Python dict is the sequence of its <<key, value>> items in         *)
(*    insertion order (the order items() iterates in); assigning to an     *)
(*    existing key replaces the value in place, assigning to a new key     *)
(*    appends.                                                             *)
(*  - math.log is strictly increasing, so a log-probability is kept as the *)
(*    exact positive rational <<num, den>> whose logarithm it is; sums of  *)
(*    logs are products of rationals and scores are compared by            *)
(*    cross-multiplication.  Floating-point rounding is not modelled.      *)
(*  - The outcome of a call is [kind, value]: kind "return" with the       *)
(*    returned list, or the name of the exception that ended the call.     *)
(***************************************************************************)
EXTENDS Integers, Sequences, FiniteSets

VARIABLES training_data,  \* module-level name training_data: <<>> unbound, <<d>> bound to d
          corpus,         \* the training corpus argument
          docs,           \* the test documents argument
          model,          \* the tuple returned by parse_training_data, <<>> before
          outcome,        \* outcome of the last call
          last_op,        \* which entry point ran last
          prev            \* <<outcome of the preceding predict call on this model>>, or <<>>

vars == <<training_data, corpus, docs, model, outcome, last_op, prev>>

----------------------------------------------------------------------------
(* Bounds of the explored inputs *)

MaxClasses == 2
MaxDocs == 2
MaxTest == 2

(* The reserved key and Python's None *)
total == "total"
None == "None"

(* Class labels of a corpus; "total" is reserved and is not a class label *)
Labels == {"spam", "not spam"}

(* Training documents: "W w" and "" *)
Docs == { <<"W", " ", "w">>, <<>> }

(* Test documents: "W q" and "q" *)
TestDocs == { <<"W", " ", "q">>, <<"q">> }

DocSeqs == UNION { [1..n -> Docs] : n \in 0..MaxDocs }

Corpora ==
  UNION { { c \in [1..n -> Labels \X DocSeqs] :
              \A i, j \in 1..n : c[i][1] = c[j][1] => i = j } : n \in 0..MaxClasses }

TestDocuments == UNION { [1..n -> TestDocs] : n \in 0..MaxTest }

(* Abridged stand-in for the toy corpus the script binds to training_data *)
ToyTrainingData ==
  << <<"spam", << <<"W", " ", "w">>, <<"W", " ", "w">> >> >>,
     <<"not spam", << <<>>, <<"q">> >> >> >>

----------------------------------------------------------------------------
(* Python built-ins used by the code *)

RECURSIVE DictHas(_, _)
DictHas(d, k) ==
  IF d = <<>> THEN FALSE
  ELSE IF Head(d)[1] = k THEN TRUE ELSE DictHas(Tail(d), k)

RECURSIVE DictGet(_, _)
DictGet(d, k) ==
  IF Head(d)[1] = k THEN Head(d)[2] ELSE DictGet(Tail(d), k)

RECURSIVE DictSet(_, _, _)
DictSet(d, k, v) ==
  IF d = <<>> THEN << <<k, v>> >>
  ELSE IF Head(d)[1] = k THEN << <<k, v>> >> \o Tail(d)
  ELSE << Head(d) >> \o DictSet(Tail(d), k, v)

RECURSIVE split_from(_, _, _)
split_from(s, cur, out) ==
  IF s = <<>> THEN Append(out, cur)
  ELSE IF Head(s) = " " THEN split_from(Tail(s), <<>>, Append(out, cur))
  ELSE split_from(Tail(s), Append(cur, Head(s)), out)

split(s) == split_from(s, <<>>, <<>>)

lower_char(ch) == IF ch = "W" THEN "w" ELSE IF ch = "Q" THEN "q" ELSE ch

RECURSIVE lower(_)
lower(w) == IF w = <<>> THEN <<>> ELSE << lower_char(Head(w)) >> \o lower(Tail(w))

----------------------------------------------------------------------------
(* parse_training_data, as a fold over classes, documents and words *)

InitAcc ==
  [vocab_set |-> {}, word_counts |-> <<>>, class_counts |-> <<>>,
   class_total |-> 0, word_total |-> 0]

(* if word_counts[cls_name].get(word): ... += 1  else: ... = 1 *)
Increment(cls_words, word) ==
  IF DictHas(cls_words, word) /\ DictGet(cls_words, word) # 0
  THEN DictSet(cls_words, word, DictGet(cls_words, word) + 1)
  ELSE DictSet(cls_words, word, 1)

AddToClass(acc, cls_name, word) ==
  [acc EXCEPT !.vocab_set = @ \cup {word},
              !.word_total = @ + 1,
              !.word_counts = DictSet(@, cls_name, Increment(DictGet(@, cls_name), word))]

CountWord_NoLower(acc, cls_name, word_orig) == AddToClass(acc, cls_name, word_orig)

CountWord(acc, cls_name, word_orig) == AddToClass(acc, cls_name, lower(word_orig))

RECURSIVE CountWords(_, _, _)
CountWords(acc, cls_name, words) ==
  IF words = <<>> THEN acc
  ELSE CountWords(CountWord(acc, cls_name, Head(words)), cls_name, Tail(words))

CountDoc_NoTotal(acc, cls_name, doc) ==
  CountWords([acc EXCEPT
                !.class_counts = DictSet(@, cls_name, DictGet(@, cls_name) + 1)],
             cls_name, split(doc))

CountDoc(acc, cls_name, doc) ==
  CountWords([acc EXCEPT
                !.class_counts = DictSet(@, cls_name, DictGet(@, cls_name) + 1),
                !.class_total = @ + 1],
             cls_name, split(doc))

RECURSIVE CountDocs(_, _, _)
CountDocs(acc, cls_name, ds) ==
  IF ds = <<>> THEN acc
  ELSE CountDocs(CountDoc(acc, cls_name, Head(ds)), cls_name, Tail(ds))

StartClass_NoReset(acc, cls_name) ==
  [acc EXCEPT !.class_counts = DictSet(@, cls_name, 0),
              !.word_counts = DictSet(@, cls_name, <<>>)]

StartClass(acc, cls_name) ==
  [acc EXCEPT !.class_counts = DictSet(@, cls_name, 0),
              !.word_counts = DictSet(@, cls_name, <<>>),
              !.word_total = 0]

(* word_counts['total'] = word_total, at the end of every class *)
EndClass(acc) ==
  [acc EXCEPT !.word_counts = DictSet(@, total, acc.word_total)]

CountClass(acc, cls_name, ds) ==
  EndClass(CountDocs(StartClass(acc, cls_name), cls_name, ds))

RECURSIVE CountClasses(_, _)
CountClasses(acc, items) ==
  IF items = <<>> THEN acc
  ELSE CountClasses(CountClass(acc, Head(items)[1], Head(items)[2]), Tail(items))

(* class_counts['total'] = class_total; return (len(vocab_set), word_counts, class_counts) *)
ParsedTuple(acc) ==
  << Cardinality(acc.vocab_set),
     acc.word_counts,
     DictSet(acc.class_counts, total, acc.class_total) >>

parse_training_data(data_obj) == ParsedTuple(CountClasses(InitAcc, data_obj))

----------------------------------------------------------------------------
(* calculate_probability *)

Raise(exc) == [kind |-> exc, value |-> <<>>]

Return(v) == [kind |-> "return", value |-> v]

Prior_Uniform(class_count, doc_cls) ==
  IF DictGet(class_count, total) = 0 THEN Raise("ZeroDivisionError")
  ELSE IF DictGet(class_count, doc_cls) = 0 THEN Raise("ValueError")
  ELSE Return(<< 1, 1 >>)

(* math.log(class_count[doc_cls] / (class_count['total'] * 1.0)):            *)
(* division by 0.0 raises ZeroDivisionError, math.log(0.0) raises ValueError *)
Prior(class_count, doc_cls) ==
  IF DictGet(class_count, total) = 0 THEN Raise("ZeroDivisionError")
  ELSE IF DictGet(class_count, doc_cls) = 0 THEN Raise("ValueError")
  ELSE Return(<< DictGet(class_count, doc_cls), DictGet(class_count, total) >>)

(* word_counter['total'] + vocab *)
Denominator(word_counter, vocab) == DictGet(word_counter, total) + vocab

(* word_counts.get(word), with None and 0 both read as 0 *)
WordInstance(word_counts, word) ==
  IF DictHas(word_counts, word) THEN DictGet(word_counts, word) ELSE 0

(* probabilities[doc_cls] += math.log((word_instance + 1) / (denominator * 1.0)) *)
AddWord(word_counter, vocab, word_counts, word_orig, p) ==
  IF Denominator(word_counter, vocab) = 0 THEN Raise("ZeroDivisionError")
  ELSE Return(<< p[1] * (WordInstance(word_counts, lower(word_orig)) + 1),
                 p[2] * Denominator(word_counter, vocab) >>)

(* r is the outcome so far: the running score, or the exception already raised *)
RECURSIVE AddWords(_, _, _, _, _)
AddWords(word_counter, vocab, word_counts, words, r) ==
  IF words = <<>> \/ r.kind # "return" THEN r
  ELSE AddWords(word_counter, vocab, word_counts, Tail(words),
                AddWord(word_counter, vocab, word_counts, Head(words), r.value))

ScoreClass(word_counter, vocab, class_count, doc_cls, word_counts, doc) ==
  AddWords(word_counter, vocab, word_counts, split(doc), Prior(class_count, doc_cls))

PutScore(probabilities, doc_cls, s) ==
  IF s.kind # "return" THEN s ELSE Return(DictSet(probabilities, doc_cls, s.value))

RECURSIVE ScoreClasses(_, _, _, _, _, _)
ScoreClasses(word_counter, vocab, class_count, items, doc, r) ==
  IF items = <<>> \/ r.kind # "return" THEN r
  ELSE IF Head(items)[1] = total
  THEN ScoreClasses(word_counter, vocab, class_count, Tail(items), doc, r)
  ELSE ScoreClasses(word_counter, vocab, class_count, Tail(items), doc,
                    PutScore(r.value, Head(items)[1],
                             ScoreClass(word_counter, vocab, class_count,
                                        Head(items)[1], Head(items)[2], doc)))

AppendScores(rslt, s) ==
  IF s.kind # "return" THEN s ELSE Return(Append(rslt, s.value))

RECURSIVE ScoreDocuments(_, _, _, _, _)
ScoreDocuments(word_counter, vocab, class_count, test_documents, r) ==
  IF test_documents = <<>> \/ r.kind # "return" THEN r
  ELSE ScoreDocuments(word_counter, vocab, class_count, Tail(test_documents),
                      AppendScores(r.value,
                                   ScoreClasses(word_counter, vocab, class_count,
                                                word_counter, Head(test_documents),
                                                Return(<<>>))))

(* The dicts are passed by reference: the result carries them as the call leaves them *)
Scored(r, word_counter, class_count) ==
  [kind |-> r.kind, value |-> r.value,
   word_counter |-> word_counter, class_count |-> class_count]

calculate_probability_Storing(word_counter, vocab, class_count, test_documents) ==
  Scored(ScoreDocuments(word_counter, vocab, class_count, test_documents, Return(<<>>)),
         IF DictHas(word_counter, total) /\ test_documents # <<>>
         THEN DictSet(word_counter, total, Denominator(word_counter, vocab))
         ELSE word_counter,
         class_count)

calculate_probability(word_counter, vocab, class_count, test_documents) ==
  Scored(ScoreDocuments(word_counter, vocab, class_count, test_documents, Return(<<>>)),
         word_counter, class_count)

----------------------------------------------------------------------------
(* predict *)

Greater(p, q) == p[1] * q[2] > q[1] * p[2]

Replaces_GreaterEqual(max_prob, prob) == Len(max_prob) = 0 \/ ~Greater(max_prob, prob)

(* max_prob == None or prob > max_prob *)
Replaces(max_prob, prob) == Len(max_prob) = 0 \/ Greater(prob, max_prob)

RECURSIVE SelectFrom(_, _, _)
SelectFrom(items, max_prob, max_cls) ==
  IF items = <<>> THEN max_cls
  ELSE IF Replaces(max_prob, Head(items)[2])
  THEN SelectFrom(Tail(items), Head(items)[2], Head(items)[1])
  ELSE SelectFrom(Tail(items), max_prob, max_cls)

RECURSIVE SelectAll(_, _)
SelectAll(probabilities, rslt_classes) ==
  IF probabilities = <<>> THEN rslt_classes
  ELSE SelectAll(Tail(probabilities),
                 Append(rslt_classes, SelectFrom(Head(probabilities), <<>>, None)))

Predicted(vocab, probabilities) ==
  [kind |-> probabilities.kind,
   value |-> IF probabilities.kind # "return" THEN <<>>
             ELSE SelectAll(probabilities.value, <<>>),
   parsed_train_data |-> << vocab, probabilities.word_counter, probabilities.class_count >>]

predict(parsed_train_data, test_data) ==
  Predicted(parsed_train_data[1],
            calculate_probability(parsed_train_data[2], parsed_train_data[1],
                                  parsed_train_data[3], test_data))

Outcome(r) == [kind |-> r.kind, value |-> r.value]

(* naive_bayes_text parses the module-level name training_data, not train_data *)
naive_bayes_text(train_data, test_data) ==
  IF Len(training_data) = 0 THEN Raise("NameError")
  ELSE Outcome(predict(parse_training_data(training_data[1]), test_data))

----------------------------------------------------------------------------
(* The entry points, applied to the arguments chosen in Init *)

NoOutcome == [kind |-> "none", value |-> <<>>]

IsTrained == Len(model) = 3

Init ==
  /\ training_data \in { <<>>, <<ToyTrainingData>> }
  /\ corpus \in Corpora
  /\ docs \in TestDocuments
  /\ model = <<>>
  /\ outcome = NoOutcome
  /\ last_op = "init"
  /\ prev = <<>>

Train ==
  /\ model' = parse_training_data(corpus)
  /\ outcome' = NoOutcome
  /\ last_op' = "train"
  /\ prev' = <<>>
  /\ UNCHANGED <<training_data, corpus, docs>>

Scoring(r) ==
  /\ model' = << model[1], r.word_counter, r.class_count >>
  /\ outcome' = Outcome(r)

Score ==
  /\ IsTrained
  /\ Scoring(calculate_probability(model[2], model[1], model[3], docs))
  /\ last_op' = "score"
  /\ prev' = <<>>
  /\ UNCHANGED <<training_data, corpus, docs>>

Predicting(r) ==
  /\ model' = r.parsed_train_data
  /\ outcome' = Outcome(r)

Predict ==
  /\ IsTrained
  /\ Predicting(predict(model, docs))
  /\ last_op' = "predict"
  /\ prev' = IF last_op = "predict" THEN <<outcome>> ELSE <<>>
  /\ UNCHANGED <<training_data, corpus, docs>>

Classify ==
  /\ outcome' = naive_bayes_text(corpus, docs)
  /\ last_op' = "classify"
  /\ prev' = <<>>
  /\ UNCHANGED <<training_data, corpus, docs, model>>

Next == Train \/ Score \/ Predict \/ Classify

Spec == Init /\ [][Next]_vars

----------------------------------------------------------------------------
(* What the claims speak of, read off the arguments rather than the model *)

CorpusLabels == { corpus[i][1] : i \in DOMAIN corpus }

NoReservedLabel == total \notin CorpusLabels

(* The lower-cased tokens of one document *)
TokensOf(doc) == { lower(split(doc)[k]) : k \in DOMAIN split(doc) }

DocsTokens(ds) == UNION { TokensOf(ds[j]) : j \in DOMAIN ds }

CorpusTokens == UNION { DocsTokens(corpus[i][2]) : i \in DOMAIN corpus }

RECURSIVE WordsIn(_)
WordsIn(ds) == IF ds = <<>> THEN 0 ELSE Len(split(Head(ds))) + WordsIn(Tail(ds))

RECURSIVE GlobalWords(_)
GlobalWords(items) ==
  IF items = <<>> THEN 0 ELSE WordsIn(Head(items)[2]) + GlobalWords(Tail(items))

RECURSIVE SumValues(_)
SumValues(d) == IF d = <<>> THEN 0 ELSE Head(d)[2] + SumValues(Tail(d))

RECURSIVE SumClassCounts(_, _)
SumClassCounts(class_counts, items) ==
  IF items = <<>> THEN 0
  ELSE DictGet(class_counts, Head(items)[1]) + SumClassCounts(class_counts, Tail(items))

ScoresOfModel == calculate_probability(model[2], model[1], model[3], docs).value

(* cls is scored in prob_obj, no class scores higher, every earlier class scores lower *)
IsFirstMaximum(prob_obj, cls) ==
  \E i \in DOMAIN prob_obj :
    /\ prob_obj[i][1] = cls
    /\ \A j \in DOMAIN prob_obj :
         /\ ~Greater(prob_obj[j][2], prob_obj[i][2])
         /\ j < i => Greater(prob_obj[i][2], prob_obj[j][2])

TwoClassesUnequal ==
  /\ Len(corpus) = 2
  /\ Len(corpus[1][2]) >= 1
  /\ Len(corpus[2][2]) >= 1
  /\ Len(corpus[1][2]) # Len(corpus[2][2])

LargerClass ==
  IF Len(corpus[1][2]) > Len(corpus[2][2]) THEN corpus[1][1] ELSE corpus[2][1]

AllUnseen(doc) == TokensOf(doc) \cap CorpusTokens = {}

AllClassesEmpty == \A i \in DOMAIN corpus : Len(corpus[i][2]) = 0

----------------------------------------------------------------------------
(* C1: classify (naive_bayes_text) returns exactly                          *)
(* predict(train(train_corpus), test_documents): its result is determined   *)
(* by its own train_corpus argument and by nothing outside the call.        *)
C1_ClassifyUsesItsArgument ==
  last_op = "classify" =>
    outcome = Outcome(predict(parse_training_data(corpus), docs))

(* C2: for every class c of the corpus, the per-token counts                *)
(* word_counts[c][w] sum to the total word count the model records for c;   *)
(* the model's only record of a word total is word_counts['total'].         *)
C2_WordCountsSumToRecordedTotal ==
  IsTrained =>
    \A i \in DOMAIN corpus :
      SumValues(DictGet(model[2], corpus[i][1])) = DictGet(model[2], total)

(* C3: for every corpus without the reserved label "total", the class       *)
(* counts of the real classes sum to class_counts["total"], and each        *)
(* class_counts[c] is the number of documents of class c.                   *)
C3_ClassCountsSumToTotal ==
  (IsTrained /\ NoReservedLabel) =>
    /\ SumClassCounts(model[3], corpus) = DictGet(model[3], total)
    /\ \A i \in DOMAIN corpus : DictGet(model[3], corpus[i][1]) = Len(corpus[i][2])

C3_Witness ==
  /\ IsTrained
  /\ NoReservedLabel
  /\ TwoClassesUnequal
  /\ DictGet(model[3], total) = 3

(* C4: vocabulary_size is the number of distinct lower-cased tokens         *)
(* (documents split on single spaces) across all documents of all classes,  *)
(* whatever the order, repetition or letter case of the tokens.             *)
C4_VocabularyIsDistinctTokens ==
  IsTrained => model[1] = Cardinality(CorpusTokens)

C4_Witness ==
  /\ IsTrained
  /\ Len(corpus) = 2
  /\ Len(corpus[1][2]) = 2
  /\ corpus[1][2][1] = <<"W", " ", "w">>
  /\ corpus[1][2][2] = <<>>
  /\ corpus[2][2] = << <<"W", " ", "w">> >>
  /\ model[1] = 2

(* C5: scoring or predicting against the model of the empty corpus, with at *)
(* least one test document, ends in a not-found error: score never returns  *)
(* an empty score mapping and predict never returns a none label.           *)
C5_ZeroClassesIsNotFound ==
  (Len(corpus) = 0 /\ Len(docs) > 0 /\ last_op \in {"score", "predict"}) =>
    outcome.kind = "KeyError"

(* C6: against a model trained on at least one class and no document at     *)
(* all, score on a non-empty sequence of test documents ends in an explicit *)
(* "cannot score against an empty model" error, never in a raw arithmetic   *)
(* fault.                                                                   *)
C6_EmptyModelIsExplicitError ==
  (/\ Len(corpus) > 0
   /\ AllClassesEmpty
   /\ Len(docs) > 0
   /\ last_op = "score") =>
    outcome.kind = "EmptyModelError"

(* C7: for every document with at least one scored class, predict selects a *)
(* class of maximal score, and among exactly equal maximal scores the one   *)
(* that comes first in the iteration order of the model's classes.          *)
C7_SelectsFirstMaximum ==
  (last_op = "predict" /\ outcome.kind = "return") =>
    \A k \in DOMAIN docs :
      Len(ScoresOfModel[k]) > 0 => IsFirstMaximum(ScoresOfModel[k], outcome.value[k])

C7_Witness ==
  /\ last_op = "predict"
  /\ outcome.kind = "return"
  /\ Len(docs) = 2
  /\ Len(ScoresOfModel[1]) = 2
  /\ ~Greater(ScoresOfModel[1][1][2], ScoresOfModel[1][2][2])
  /\ ~Greater(ScoresOfModel[1][2][2], ScoresOfModel[1][1][2])
  /\ outcome.value[1] = ScoresOfModel[1][1][1]

(* C8: score and predict leave the model unchanged - it stays the tuple     *)
(* train returned - and two successive predict calls with the same model    *)
(* and documents return the same labels.                                    *)
C8_ModelUnchangedByPredict ==
  IsTrained =>
    /\ model = parse_training_data(corpus)
    /\ (last_op = "predict" /\ Len(prev) > 0) => prev[1] = outcome

C8_Witness ==
  /\ last_op = "predict"
  /\ Len(prev) > 0
  /\ outcome.kind = "return"
  /\ Len(outcome.value) > 0
  /\ model[1] > 0

(* C9: for a two-class corpus, both classes non-empty and of different     *)
(* sizes, predict on a document of only unseen tokens returns the class     *)
(* with more training documents.                                            *)
C9_LargerClassWins ==
  (last_op = "predict" /\ TwoClassesUnequal) =>
    \A k \in DOMAIN docs :
      AllUnseen(docs[k]) => (outcome.kind = "return" /\ outcome.value[k] = LargerClass)

C9_Witness ==
  /\ last_op = "predict"
  /\ TwoClassesUnequal
  /\ Len(corpus[2][2]) > Len(corpus[1][2])
  /\ Len(docs) = 2
  /\ AllUnseen(docs[1])
  /\ AllUnseen(docs[2])
  /\ docs[1] # docs[2]
  /\ outcome.value = << corpus[2][1], corpus[2][1] >>

=============================================================================
